---- MODULE Spec2Model ----
(***************************************************************************)
(* Autonomous Research Assistant: the plan -> research -> analyse -> route  *)
(* loop of src/02_implementation (main.py, agents/*.py,                     *)
(* tools/search_tools.py).                                                  *)
(*                                                                          *)
(* Conventions                                                              *)
(*  - scores that are floats in [0,1] in the code are integers in 0..100    *)
(*    (percent) here; every comparison of the code is against a multiple    *)
(*    of 0.1, so flooring to a percent keeps each comparison's outcome.     *)
(*  - a URL is a sequence of one-character strings, so that lower() and     *)
(*    rstrip("/") are computed; the character "e" stands for a substring    *)
(*    of the trusted-domain list (".edu", ".gov", ...).                     *)
(*  - a text (description, query, content, title) is known by its set of    *)
(*    lower-case words and its length; "term in text" of the code is        *)
(*    membership of the word.                                               *)
(*  - uuid4() is a fresh number taken from uuid_counter.                    *)
(*  - a content of None (a null field of the search response) is a record  *)
(*    with none = TRUE.                                                     *)
(***************************************************************************)
EXTENDS Integers, Sequences, FiniteSets, TLC

\* ------------------------------------------------------------------ bounds
\* largest max_iterations a run is started with
MaxIterations == 3
\* largest max_iterations of a run whose termination is checked under fairness
MaxFairIterations == 2
\* longest raw result list handed to the search tools on their own
MaxLen == 3
\* largest max_iterations of a state handed to the decision functions on their own
MaxDecideIter == 5

\* ------------------------------------------------------- program constants
MinSourceQuality == 40
MinRelevance == 30
MaxQueries == 3
HighConfidence == 70
EnoughHighConfidence == 5
SupportingFindings == 3
SupportingInsights == 2

\* an optional value is <<>> (None) or <<v>>
None == <<>>
Some(v) == <<v>>

Min(a, b) == IF a <= b THEN a ELSE b
Max(a, b) == IF a >= b THEN a ELSE b

Range(s) == {s[i] : i \in 1..Len(s)}

RECURSIVE SumSeq(_)
SumSeq(s) == IF s = <<>> THEN 0 ELSE s[1] + SumSeq(Tail(s))

\* ------------------------------------------------------------------- texts
Desc1 == "Research market trends for Q"
Desc2 == "Analyze competitive landscape for Q"
Desc3 == "Identify key players and stakeholders in Q"
DescA == "Q pricing"
DescB == "Q vendors"
DescC == "Q trends"
QueryA == "Q market size"
QueryB == "Q vendors"

\* set(text.lower().split())
Words(text) ==
    CASE text = Desc1 -> {"research", "market", "trends", "for", "q"}
      [] text = Desc2 -> {"analyze", "competitive", "landscape", "for", "q"}
      [] text = Desc3 -> {"identify", "key", "players", "and", "stakeholders", "in", "q"}
      [] text = DescA -> {"q", "pricing"}
      [] text = DescB -> {"q", "vendors"}
      [] text = DescC -> {"q", "trends"}
      [] text = QueryA -> {"q", "market", "size"}
      [] OTHER -> {}

\* len(text)
StrLen(text) ==
    CASE text = Desc1 -> 28
      [] text = Desc2 -> 35
      [] text = Desc3 -> 42
      [] text \in {DescA, DescB} -> 9
      [] text = DescC -> 8
      [] text = QueryA -> 13
      [] OTHER -> 0

\* ---------------------------------------------------- tools/search_tools.py
Lower(c) == CASE c = "A" -> "a" [] c = "E" -> "e" [] c = "X" -> "x" [] OTHER -> c

url_lower(url) == [i \in 1..Len(url) |-> Lower(url[i])]

RECURSIVE rstrip_slash(_)
rstrip_slash(url) ==
    IF Len(url) > 0 /\ url[Len(url)] = "/"
    THEN rstrip_slash(SubSeq(url, 1, Len(url) - 1))
    ELSE url

\* normalized = url.lower().rstrip("/")
normalize_url(url) == rstrip_slash(url_lower(url))

RECURSIVE dedup_loop(_, _, _)
dedup_loop(results, seen_urls, unique_results) ==
    IF results = <<>> THEN unique_results
    ELSE LET normalized == normalize_url(Head(results).url)
         IN  IF normalized \notin seen_urls
             THEN dedup_loop(Tail(results), seen_urls \cup {normalized},
                             Append(unique_results, Head(results)))
             ELSE dedup_loop(Tail(results), seen_urls, unique_results)

\* mutant: a duplicate is removed from the list being iterated, so the item after
\* it is never examined
RECURSIVE dedup_loop_skipping(_, _, _)
dedup_loop_skipping(results, seen_urls, unique_results) ==
    IF results = <<>> THEN unique_results
    ELSE LET normalized == normalize_url(Head(results).url)
         IN  IF normalized \notin seen_urls
             THEN dedup_loop_skipping(Tail(results), seen_urls \cup {normalized},
                                      Append(unique_results, Head(results)))
             ELSE IF Len(results) >= 2
                  THEN dedup_loop_skipping(Tail(Tail(results)), seen_urls,
                                           Append(unique_results, results[2]))
                  ELSE unique_results

deduplicate_results_skipping(results) == dedup_loop_skipping(results, {}, <<>>)

\* mutant: URLs are compared as given, not normalized
RECURSIVE dedup_loop_raw(_, _, _)
dedup_loop_raw(results, seen_urls, unique_results) ==
    IF results = <<>> THEN unique_results
    ELSE IF Head(results).url \notin seen_urls
         THEN dedup_loop_raw(Tail(results), seen_urls \cup {Head(results).url},
                             Append(unique_results, Head(results)))
         ELSE dedup_loop_raw(Tail(results), seen_urls, unique_results)

deduplicate_results_raw(results) == dedup_loop_raw(results, {}, <<>>)

deduplicate_results(results) == dedup_loop(results, {}, <<>>)

\* any(domain in url.lower() for domain in trusted_domains)
trusted_domain(url) == \E i \in 1..Len(url) : url_lower(url)[i] = "e"

\* score in percent: 0.5 base, +0.2 trusted domain, +min(0.2, len/2000), +0.1 long title
evaluate_source_quality(url, title, content) ==
    LET base == 50
        dom == IF trusted_domain(url) THEN 20 ELSE 0
        cq == IF ~content.none /\ content.len > 0
              THEN Min(20, (content.len * 100) \div 2000) ELSE 0
        tq == IF title.len > 20 THEN 10 ELSE 0
    IN  Min(100, Max(0, base + dom + cq + tq))

\* content + " " + title raises TypeError when content is None
relevance_raises(content) == content.none

\* matches / max(len(query_terms), 1), capped at 1.0, in percent
calculate_relevance(query, content, title) ==
    LET query_terms == Words(query)
        content_lower == content.words \cup title.words
        matches == Cardinality({t \in query_terms : t \in content_lower})
    IN  Min(100, (matches * 100) \div Max(Cardinality(query_terms), 1))

\* the three mock results of _fallback_search (max_results = 5 -> min(5, 3) = 3)
FallbackContentWords ==
    {"this", "is", "fallback", "content", "for", "in", "production", "use",
     "alternative", "search", "api"}

fallback_search(query) ==
    [i \in 1..3 |->
        [title |-> [words |-> {"result", "for"} \cup Words(query),
                    len |-> 13 + StrLen(query)],
         url |-> <<"x", CASE i = 1 -> "1" [] i = 2 -> "2" [] OTHER -> "3">>,
         content |-> [none |-> FALSE,
                      words |-> FallbackContentWords \cup Words(query),
                      len |-> 82 + StrLen(query)]]]

\* --------------------------------------------- the text-generation service
\* d.get(k, default) of a parsed JSON object
Get(d, k, default) == IF k \in DOMAIN d THEN d[k] ELSE default

\* What the planning call can do: raise, or return a text that holds no
\* JSON array ("nojson"), a malformed one ("badjson"), or a task array.
PlanResponses ==
    { [kind |-> "error", data |-> <<>>],
      [kind |-> "nojson", data |-> <<>>],
      [kind |-> "badjson", data |-> <<>>],
      [kind |-> "json", data |-> << [description |-> DescA, topic |-> "pricing"] >>],
      [kind |-> "json",
       data |-> << [description |-> DescA, topic |-> "pricing", priority |-> 3],
                   [description |-> DescB, topic |-> "vendors", priority |-> 5],
                   [description |-> DescC, topic |-> "trends", priority |-> 5] >>] }

\* What the query-derivation call can do: raise, or return lines of text.
QueryResponses ==
    { [kind |-> "error", lines |-> <<>>],
      [kind |-> "text", lines |-> << "" >>],
      [kind |-> "text", lines |-> << QueryA, "# notes", "", " Q market size ", QueryB, Desc1 >>] }

\* q.strip()
Strip(line) == IF line = " Q market size " THEN QueryA ELSE line

\* q.strip().startswith("#")
IsComment(line) == line = "# notes"

\* What the insight call can do: raise, or return a text with no JSON array,
\* or an array of insight objects (a missing confidence defaults to 0.7).
InsightResponses ==
    { [kind |-> "error", data |-> <<>>],
      [kind |-> "nojson", data |-> <<>>],
      [kind |-> "json", data |-> << [confidence |-> 50, priority |-> 2] >>],
      [kind |-> "json",
       data |-> << [confidence |-> 50, priority |-> 2], [malformed |-> TRUE],
                   [confidence |-> 80] >>],
      [kind |-> "json",
       data |-> << [confidence |-> 90], [confidence |-> 90], [confidence |-> 80],
                   [confidence |-> 70], [priority |-> 4] >>] }

\* What the recommendation call can do.
RecResponses ==
    { [kind |-> "error", data |-> <<>>],
      [kind |-> "json", data |-> << [impact |-> "high"] >>],
      [kind |-> "json", data |-> << [impact |-> "high"], [malformed |-> TRUE] >>] }

\* ------------------------------------------------------ the evidence source
TitleLong == [words |-> {"q", "market", "report"}, len |-> 32]
TitleShort == [words |-> {"news"}, len |-> 4]

ResultGood ==
    [title |-> TitleLong, url |-> <<"e", "A">>,
     content |-> [none |-> FALSE, len |-> 4000,
                  words |-> {"q", "market", "trends", "pricing", "vendors", "players"}]]
ResultDup ==
    [title |-> TitleShort, url |-> <<"e", "a", "/">>,
     content |-> [none |-> FALSE, len |-> 300, words |-> {"q", "market", "trends", "pricing"}]]
ResultOff ==
    [title |-> TitleShort, url |-> <<"a">>,
     content |-> [none |-> FALSE, len |-> 300, words |-> {"weather"}]]
ResultPlain ==
    [title |-> TitleShort, url |-> <<"a", "/", "/">>,
     content |-> [none |-> FALSE, len |-> 0, words |-> {"q", "pricing", "vendors", "trends"}]]
ResultNull ==
    [title |-> TitleShort, url |-> <<"x", "/">>,
     content |-> [none |-> TRUE, len |-> 0, words |-> {}]]

\* a result whose url field is missing: result.get("url", "") is ""
ResultNoUrl ==
    [title |-> TitleLong, url |-> <<>>,
     content |-> [none |-> FALSE, len |-> 1000, words |-> {"q", "pricing"}]]

TavilyA == << ResultGood, ResultDup, ResultOff >>
TavilyB == << ResultPlain, ResultNull >>

\* How the evidence source behaves during one collection: per query it
\* raises ("raise") or returns a response.
SearchBehaviours == {"down", "up", "mixed"}

tavily_search(behaviour, query) ==
    CASE behaviour = "down" -> [raised |-> TRUE, results |-> <<>>]
      [] behaviour = "up" -> [raised |-> FALSE, results |-> TavilyA]
      [] OTHER -> IF query = QueryA
                  THEN [raised |-> FALSE, results |-> TavilyB]
                  ELSE [raised |-> FALSE, results |-> <<ResultPlain, ResultNoUrl>>]

\* -------------------------------------------------------------------- state
VARIABLES
    pc,                   \* the graph node that runs next
    tavily_client,        \* SearchTools.tavily_client is set (TAVILY_API_KEY found)
    max_iterations, iteration_count,
    research_plan, current_task,
    findings, search_queries_used, api_calls_count, covered_topics,
    insights, recommendations, quality_metrics,
    errors, needs_more_research, has_critical_error,
    status, final_report,
    uuid_counter,         \* the uuid4() values handed out so far
    search_log,           \* the queries search_web was called with, in order
    skipped_queries,      \* how often "skipping_duplicate_query" was logged
    node_runs,            \* how often each graph node has run
    decision,             \* what _should_continue returned last
    last_collection,      \* the latest call of _process_results that returned
    last_search,          \* what the latest run of execute_research did
    plan_next_task,       \* what get_next_task returned to the latest _plan_node
    last_analysis,        \* what the service calls of the latest analyze_findings did
    tool_in, tool_out, tool_stage   \* the search tools applied on their own

loop_vars ==
    <<pc, tavily_client, max_iterations, iteration_count, research_plan, current_task,
      findings, search_queries_used, api_calls_count, covered_topics, insights,
      recommendations, quality_metrics, errors, needs_more_research,
      has_critical_error, status, final_report, uuid_counter, search_log,
      skipped_queries, node_runs, decision, last_collection, last_search,
      plan_next_task, last_analysis>>

tool_vars == <<tool_in, tool_out, tool_stage>>

vars == <<loop_vars, tool_vars>>

\* ------------------------------------------ state/research_state.py (absent)
\* The view of the state the decision functions read.
State ==
    [research_plan |-> research_plan, covered_topics |-> covered_topics,
     findings |-> findings, insights |-> insights,
     iteration_count |-> iteration_count, max_iterations |-> max_iterations,
     needs_more_research |-> needs_more_research,
     has_critical_error |-> has_critical_error]

QualityFloor == 60

\* coverage = |coveredTopics /\ planTopics| / |planTopics|, source quality = mean of
\* the findings' quality, insight depth = insight count and mean confidence, capped
calculate_quality_metrics(st) ==
    LET plan_topics == {st.research_plan[i].topic : i \in 1..Len(st.research_plan)}
        covered == Range(st.covered_topics) \cap plan_topics
        n == Len(st.findings)
        k == Len(st.insights)
        mean_conf == IF k = 0 THEN 0
                     ELSE SumSeq([i \in 1..k |-> st.insights[i].confidence]) \div k
    IN  [coverage_score |->
            IF plan_topics = {} THEN 0
            ELSE (Cardinality(covered) * 100) \div Cardinality(plan_topics),
         source_quality_score |->
            IF n = 0 THEN 0
            ELSE SumSeq([i \in 1..n |-> st.findings[i].source_quality]) \div n,
         insight_depth_score |-> Min(100, k * 10 + mean_conf \div 2)]

is_quality_sufficient(metrics) ==
    /\ metrics.coverage_score > QualityFloor
    /\ metrics.source_quality_score > QualityFloor
    /\ metrics.insight_depth_score > QualityFloor

\* ----------------------------------------------------- agents/orchestrator.py
create_fallback_plan(first_id) ==
    << [task_id |-> first_id, description |-> Desc1, topic |-> "market_trends",
        priority |-> 5, status |-> "pending"],
       [task_id |-> first_id + 1, description |-> Desc2, topic |-> "competitive_analysis",
        priority |-> 4, status |-> "pending"],
       [task_id |-> first_id + 2, description |-> Desc3, topic |-> "stakeholder_analysis",
        priority |-> 3, status |-> "pending"] >>

\* _parse_tasks: no JSON array in the text leaves tasks = []; an array that does
\* not load raises inside the try and yields the fallback plan
parse_tasks(response, first_id) ==
    CASE response.kind = "nojson" -> <<>>
      [] response.kind = "badjson" -> create_fallback_plan(first_id)
      [] OTHER ->
           [i \in 1..Len(response.data) |->
               [task_id |-> first_id + i - 1,
                description |-> Get(response.data[i], "description", ""),
                topic |-> Get(response.data[i], "topic", ""),
                priority |-> Get(response.data[i], "priority", 3),
                status |-> "pending"]]

\* plan_research: the plan; the caller sets status = "researching" in both branches
plan_research(response, first_id) ==
    IF response.kind = "error"
    THEN create_fallback_plan(first_id)
    ELSE parse_tasks(response, first_id)

\* mutant: sorted ascending and then reversed, so equal keys swap their order
RECURSIVE sort_then_reverse(_)
sort_then_reverse(tasks) ==
    IF tasks = <<>> THEN <<>>
    ELSE LET rest == sort_then_reverse(SubSeq(tasks, 1, Len(tasks) - 1))
             t == tasks[Len(tasks)]
             before == SelectSeq(rest, LAMBDA u : u.priority > t.priority)
             after == SelectSeq(rest, LAMBDA u : u.priority <= t.priority)
         IN  before \o <<t>> \o after

\* list.sort(key = priority, reverse = True): stable, equal keys keep their order
RECURSIVE insert_by_priority(_, _)
insert_by_priority(sorted, t) ==
    IF sorted = <<>> THEN <<t>>
    ELSE IF Head(sorted).priority >= t.priority
         THEN <<Head(sorted)>> \o insert_by_priority(Tail(sorted), t)
         ELSE <<t>> \o sorted

RECURSIVE sort_by_priority(_)
sort_by_priority(tasks) ==
    IF tasks = <<>> THEN <<>>
    ELSE insert_by_priority(sort_by_priority(SubSeq(tasks, 1, Len(tasks) - 1)),
                            tasks[Len(tasks)])

\* get_next_task: None, or the first of the pending tasks sorted by priority
get_next_task(plan) ==
    LET pending_tasks == SelectSeq(plan, LAMBDA t : t.status = "pending")
    IN  IF pending_tasks = <<>> THEN None
        ELSE Some(Head(sort_by_priority(pending_tasks)))

\* the first task of the plan with this id, 0 when there is none
task_index(plan, task_id) ==
    IF \E i \in 1..Len(plan) : plan[i].task_id = task_id
    THEN CHOOSE i \in 1..Len(plan) :
            /\ plan[i].task_id = task_id
            /\ \A j \in 1..(i - 1) : plan[j].task_id # task_id
    ELSE 0

\* mutant: only the completion is written; selecting a task leaves it pending
set_status_on_completion(plan, task_id, new_status) ==
    LET i == task_index(plan, task_id)
    IN  IF i = 0 \/ new_status # "completed" THEN plan
        ELSE [plan EXCEPT ![i].status = new_status]

set_status(plan, task_id, new_status) ==
    LET i == task_index(plan, task_id)
    IN  IF i = 0 THEN plan ELSE [plan EXCEPT ![i].status = new_status]

\* mutant: the id is not compared, every task is set to completed
mark_task_completed_all(plan, task_id) ==
    [i \in 1..Len(plan) |-> [plan[i] EXCEPT !.status = "completed"]]

\* mutant: the task is looked up but its status is not written
mark_task_completed_unwritten(plan, task_id) == plan

\* mutant: the status is written after the loop, to whatever task the loop
\* variable was left on (the last task when no id matched)
mark_task_completed_after_loop(plan, task_id) ==
    LET i == task_index(plan, task_id)
    IN  IF plan = <<>> THEN plan
        ELSE [plan EXCEPT ![IF i = 0 THEN Len(plan) ELSE i].status = "completed"]

mark_task_completed(plan, task_id) == set_status(plan, task_id, "completed")

\* mutant: no iteration limit
decide_no_limit(st) ==
    IF is_quality_sufficient(calculate_quality_metrics(st)) THEN "finalize"
    ELSE IF st.needs_more_research THEN "continue"
    ELSE IF st.has_critical_error THEN "finalize"
    ELSE IF st.findings # <<>> THEN "continue"
    ELSE "finalize"

\* mutant: the critical-error check comes before the analyst's request
decide_critical_first(st) ==
    IF st.iteration_count >= st.max_iterations THEN "finalize"
    ELSE IF is_quality_sufficient(calculate_quality_metrics(st)) THEN "finalize"
    ELSE IF st.has_critical_error THEN "finalize"
    ELSE IF st.needs_more_research THEN "continue"
    ELSE IF st.findings # <<>> THEN "continue"
    ELSE "finalize"

\* mutant: the iteration limit is compared with > instead of >=
decide_off_by_one(st) ==
    IF st.iteration_count > st.max_iterations THEN "finalize"
    ELSE IF is_quality_sufficient(calculate_quality_metrics(st)) THEN "finalize"
    ELSE IF st.needs_more_research THEN "continue"
    ELSE IF st.has_critical_error THEN "finalize"
    ELSE IF st.findings # <<>> THEN "continue"
    ELSE "finalize"

\* decide_next_action: "continue" or "finalize"
decide_next_action(st) ==
    IF st.iteration_count >= st.max_iterations THEN "finalize"
    ELSE IF is_quality_sufficient(calculate_quality_metrics(st)) THEN "finalize"
    ELSE IF st.needs_more_research THEN "continue"
    ELSE IF st.has_critical_error THEN "finalize"
    ELSE IF st.findings # <<>> THEN "continue"
    ELSE "finalize"

\* decide_next_action stores the metrics unless the iteration limit returns first
metrics_after_decision(st, old_metrics) ==
    IF st.iteration_count >= st.max_iterations THEN old_metrics
    ELSE Some(calculate_quality_metrics(st))

\* --------------------------------------------------- agents/research_agent.py
\* _generate_search_queries: the stripped, non-empty, non-comment lines, at most
\* three; the task description alone when the call raises
generate_search_queries(response, task) ==
    IF response.kind = "error" THEN << task.description >>
    ELSE LET stripped == [i \in 1..Len(response.lines) |-> Strip(response.lines[i])]
             kept == SelectSeq(stripped, LAMBDA q : q # "" /\ ~IsComment(q))
         IN  SubSeq(kept, 1, Min(MaxQueries, Len(kept)))

\* search_web: the fallback results when there is no client or the client raises
\* (the except branch returns, so the retry decorator never sees an exception)
search_web(query, behaviour) ==
    IF ~tavily_client THEN fallback_search(query)
    ELSE LET response == tavily_search(behaviour, query)
         IN  IF response.raised THEN fallback_search(query) ELSE response.results

\* the evidence source gave no response to this query: there is no client, or
\* the client's search raised (search_web then logs and uses _fallback_search)
search_failed(query, behaviour) ==
    ~tavily_client \/ tavily_search(behaviour, query).raised

\* @retry(stop = stop_after_attempt(3), ...)
StopAfterAttempt == 3

\* an exception leaves the body of search_web: never, its try block covers the
\* whole body and the except branch returns _fallback_search(...)
search_web_raises(query, behaviour) == FALSE

\* the retry decorator: the decorated function is run again while a run of it
\* raises, StopAfterAttempt runs at most
attempts_made(run_raises) ==
    IF run_raises THEN StopAfterAttempt ELSE 1

\* how often one call of search_web calls tavily_client.search
client_calls(query, behaviour) ==
    IF ~tavily_client THEN 0
    ELSE attempts_made(search_web_raises(query, behaviour))

\* mutant: the loop does not skip a query that was already used
RECURSIVE search_loop_no_skip(_, _, _)
search_loop_no_skip(queries, acc, behaviour) ==
    IF queries = <<>> THEN acc
    ELSE search_loop_no_skip(
             Tail(queries),
             [acc EXCEPT !.all_results = @ \o search_web(Head(queries), behaviour),
                         !.used = Append(@, Head(queries)),
                         !.api_calls = @ + 1,
                         !.log = Append(@, Head(queries))],
             behaviour)

\* mutant: a skipped query is counted as a call
RECURSIVE search_loop_counting_skips(_, _, _)
search_loop_counting_skips(queries, acc, behaviour) ==
    IF queries = <<>> THEN acc
    ELSE LET query == Head(queries)
         IN  IF query \in Range(acc.used)
             THEN search_loop_counting_skips(
                      Tail(queries),
                      [acc EXCEPT !.skipped = @ + 1, !.api_calls = @ + 1], behaviour)
             ELSE search_loop_counting_skips(
                      Tail(queries),
                      [acc EXCEPT !.all_results = @ \o search_web(query, behaviour),
                                  !.used = Append(@, query),
                                  !.api_calls = @ + 1,
                                  !.log = Append(@, query)],
                      behaviour)

\* the for-loop over the queries of execute_research
RECURSIVE search_loop(_, _, _)
search_loop(queries, acc, behaviour) ==
    IF queries = <<>> THEN acc
    ELSE LET query == Head(queries)
         IN  IF query \in Range(acc.used)
             THEN search_loop(Tail(queries),
                              [acc EXCEPT !.skipped = @ + 1], behaviour)
             ELSE search_loop(Tail(queries),
                              [acc EXCEPT !.all_results = @ \o search_web(query, behaviour),
                                          !.used = Append(@, query),
                                          !.api_calls = @ + 1,
                                          !.log = Append(@, query)],
                              behaviour)

\* mutant: either threshold admits
meets_either_threshold(source_quality, relevance) ==
    source_quality >= MinSourceQuality \/ relevance >= MinRelevance

\* the threshold test of _process_results
meets_thresholds(source_quality, relevance) ==
    source_quality >= MinSourceQuality /\ relevance >= MinRelevance

\* _process_results raises when scoring a result raises
process_raises(results) == \E i \in 1..Len(results) : relevance_raises(results[i].content)

RECURSIVE process_loop(_, _, _, _)
process_loop(results, task, found, next_id) ==
    IF results = <<>> THEN found
    ELSE LET result == Head(results)
             source_quality ==
                 evaluate_source_quality(result.url, result.title, result.content)
             relevance ==
                 calculate_relevance(task.description, result.content, result.title)
         IN  IF meets_thresholds(source_quality, relevance)
             THEN process_loop(Tail(results), task,
                               Append(found,
                                      [finding_id |-> next_id, task_id |-> task.task_id,
                                       source_url |-> result.url,
                                       source_title |-> result.title,
                                       source_quality |-> source_quality,
                                       relevance_score |-> relevance]),
                               next_id + 1)
             ELSE process_loop(Tail(results), task, found, next_id)

process_results(results, task, first_id) == process_loop(results, task, <<>>, first_id)

\* how many results had passed the threshold test when scoring first raised
RECURSIVE qualified_before_raise(_, _)
qualified_before_raise(results, task) ==
    IF results = <<>> \/ relevance_raises(Head(results).content) THEN 0
    ELSE LET result == Head(results)
             source_quality ==
                 evaluate_source_quality(result.url, result.title, result.content)
             relevance ==
                 calculate_relevance(task.description, result.content, result.title)
         IN  (IF meets_thresholds(source_quality, relevance) THEN 1 ELSE 0)
             + qualified_before_raise(Tail(results), task)

\* mutant: the findings of the task are put in front of the evidence
prepend_findings(old, new) == new \o old

\* mutant: the findings of the task replace the evidence
replace_findings(old, new) == new

\* state["findings"].extend(findings)
extend_findings(old, new) == old \o new

\* len(findings) / 15.0: the number of findings that gives the full count score
FullCountFindings == 15

\* get_research_confidence as an exact fraction num / den:
\*   0.3 * min(1, n / 15) + 0.4 * (sum of source_quality / n) + 0.3 * coverage
\* with coverage = len(covered_topics) / len(plan), 0 for an empty plan;
\* source_quality is held in percent. 0 when there are no findings.
get_research_confidence(st) ==
    LET n == Len(st.findings)
        p == Len(st.research_plan)
        c == Len(st.covered_topics)
        quality_sum == SumSeq([i \in 1..n |-> st.findings[i].source_quality])
    IN  IF n = 0 THEN [num |-> 0, den |-> 1]
        ELSE IF p = 0
        THEN [num |-> 3 * Min(FullCountFindings, n) * 100 * n
                      + 4 * quality_sum * FullCountFindings,
              den |-> 10 * FullCountFindings * 100 * n]
        ELSE [num |-> 3 * Min(FullCountFindings, n) * 100 * n * p
                      + 4 * quality_sum * FullCountFindings * p
                      + 3 * c * FullCountFindings * 100 * n,
              den |-> 10 * FullCountFindings * 100 * n * p]

\* ---------------------------------------------------- agents/analyst_agent.py
\* an element of the array whose conversion raises (float("high"), or an
\* element that is not an object)
Malformed(data) == "malformed" \in DOMAIN data

\* the elements the parsing loop has appended when it ends: all of them, or
\* those before the first element that raises (the except branch only logs)
RECURSIVE parsed_prefix(_)
parsed_prefix(data) ==
    IF data = <<>> \/ Malformed(Head(data)) THEN <<>>
    ELSE <<Head(data)>> \o parsed_prefix(Tail(data))

\* the call raised, or the text held no array, or parsing raised
response_failed(response) ==
    \/ response.kind # "json"
    \/ \E i \in 1..Len(response.data) : Malformed(response.data[i])

\* mutant: the latest records are referenced, not the earliest
last_ids(records, n, field) ==
    LET k == Min(n, Len(records))
    IN  [i \in 1..k |-> records[Len(records) - k + i][field]]

\* [r.get(field, "") for r in records[:n]]
first_ids(records, n, field) ==
    [i \in 1..Min(n, Len(records)) |-> records[i][field]]

\* _generate_insights with _parse_insights: [] unless the text holds a JSON array
generate_insights(response, fnds, first_id) ==
    IF response.kind # "json" THEN <<>>
    ELSE LET data == parsed_prefix(response.data)
         IN  [i \in 1..Len(data) |->
                 [insight_id |-> first_id + i - 1,
                  supporting_findings |-> first_ids(fnds, SupportingFindings, "finding_id"),
                  confidence |-> Get(data[i], "confidence", 70),
                  priority |-> Get(data[i], "priority", 3)]]

\* _generate_recommendations with _parse_recommendations
generate_recommendations(response, ins, first_id) ==
    IF ins = <<>> \/ response.kind # "json" THEN <<>>
    ELSE LET data == parsed_prefix(response.data)
         IN  [i \in 1..Len(data) |->
                 [recommendation_id |-> first_id + i - 1,
                  supporting_insights |-> first_ids(ins, SupportingInsights, "insight_id"),
                  impact |-> Get(data[i], "impact", "medium"),
                  effort |-> Get(data[i], "effort", "medium")]]

\* mutant: the insights are appended to those of the earlier passes
extend_insights(old, new) == old \o new

\* state["insights"] = insights
store_insights(old, new) == new

\* mutant: the iteration check waits for the limit itself
evaluate_completeness_at_limit(st) ==
    IF is_quality_sufficient(calculate_quality_metrics(st)) THEN FALSE
    ELSE IF Len(SelectSeq(st.insights, LAMBDA i : i.confidence >= HighConfidence))
               >= EnoughHighConfidence THEN FALSE
    ELSE IF st.iteration_count >= st.max_iterations THEN FALSE
    ELSE TRUE

\* _evaluate_completeness: TRUE when more research is needed
evaluate_completeness(st) ==
    IF is_quality_sufficient(calculate_quality_metrics(st)) THEN FALSE
    ELSE IF Len(SelectSeq(st.insights, LAMBDA i : i.confidence >= HighConfidence))
               >= EnoughHighConfidence THEN FALSE
    ELSE IF st.iteration_count >= st.max_iterations - 1 THEN FALSE
    ELSE TRUE

\* ------------------------------------------------------------------- main.py
\* sources.sort(key = quality_score, reverse = True): stable
\* a source's place in the sorted list: after every source of higher quality
\* and after the earlier sources of the same quality
quality_rank(sources, i) ==
    1 + Cardinality({j \in 1..Len(sources) :
                        \/ sources[j].quality_score > sources[i].quality_score
                        \/ /\ sources[j].quality_score = sources[i].quality_score
                           /\ j < i})

sort_by_quality(sources) ==
    [k \in 1..Len(sources) |->
        sources[CHOOSE i \in 1..Len(sources) : quality_rank(sources, i) = k]]

RECURSIVE sources_loop(_, _, _)
sources_loop(fnds, seen_urls, sources) ==
    IF fnds = <<>> THEN sources
    ELSE LET url == Head(fnds).source_url
         IN  IF url # <<>> /\ url \notin seen_urls
             THEN sources_loop(Tail(fnds), seen_urls \cup {url},
                               Append(sources,
                                      [title |-> Head(fnds).source_title, url |-> url,
                                       quality_score |-> Head(fnds).source_quality]))
             ELSE sources_loop(Tail(fnds), seen_urls, sources)

\* mutant: the sources are left in the order they were found
extract_sources_unsorted(fnds) == sources_loop(fnds, {}, <<>>)

extract_sources(fnds) == sort_by_quality(sources_loop(fnds, {}, <<>>))

\* mutant: later passes put the status back to planning
status_restarted(iteration, old) ==
    IF iteration = 0 THEN "researching" ELSE "planning"

\* plan_research sets status to researching on both of its paths; a pass that
\* does not call it leaves status alone
status_after_plan(iteration, old) ==
    IF iteration = 0 THEN "researching" ELSE old

\* mutant: a pass is counted twice
count_pass_twice(iteration) == iteration + 2

\* state["iteration_count"] += 1
count_pass(iteration) == iteration + 1

\* mutant: every pass asks for a new plan
replan_every_pass(iteration, response, plan, first_id) ==
    plan_research(response, first_id)

\* plan_research is called in the pass that finds iteration_count = 0; later
\* passes keep the plan
plan_or_refine(iteration, response, plan, first_id) ==
    IF iteration = 0 THEN plan_research(response, first_id) ELSE plan

\* _plan_node
planner ==
    /\ pc = "planner"
    /\ iteration_count < max_iterations + 2
    /\ \E response \in PlanResponses :
          LET first == iteration_count = 0
              plan == plan_or_refine(iteration_count, response, research_plan,
                                     uuid_counter + 1)
              next_task == get_next_task(plan)
          IN  /\ ~first => response.kind = "error"
              /\ research_plan' =
                    IF next_task = None THEN plan
                    ELSE set_status(plan, next_task[1].task_id, "in_progress")
              /\ current_task' =
                    IF next_task = None THEN current_task ELSE next_task[1].task_id
              /\ needs_more_research' =
                    IF next_task = None THEN FALSE ELSE needs_more_research
              /\ status' = status_after_plan(iteration_count, status)
              /\ uuid_counter' = IF first THEN uuid_counter + Len(plan) ELSE uuid_counter
              /\ plan_next_task' =
                    IF next_task = None THEN None ELSE Some(next_task[1].task_id)
    /\ iteration_count' = count_pass(iteration_count)
    /\ node_runs' = [node_runs EXCEPT !.planner = @ + 1]
    /\ pc' = "researcher"
    /\ UNCHANGED <<tavily_client, max_iterations, findings, search_queries_used,
                   api_calls_count, covered_topics, insights, recommendations,
                   quality_metrics, errors, has_critical_error, final_report,
                   search_log, skipped_queries, decision, last_collection, last_search,
                   last_analysis, tool_vars>>

\* _research_node: execute_research, then mark_task_completed
researcher ==
    /\ pc = "researcher"
    /\ IF current_task = 0
       THEN UNCHANGED <<research_plan, findings, search_queries_used, api_calls_count,
                        covered_topics, errors, uuid_counter, search_log,
                        skipped_queries, last_collection>>
            /\ last_search' = None
       ELSE \E response \in QueryResponses, behaviour \in SearchBehaviours :
               LET task == research_plan[task_index(research_plan, current_task)]
                   queries == generate_search_queries(response, task)
                   acc == search_loop(queries,
                                      [all_results |-> <<>>, used |-> search_queries_used,
                                       api_calls |-> api_calls_count, log |-> search_log,
                                       skipped |-> skipped_queries],
                                      behaviour)
                   unique_results == deduplicate_results(acc.all_results)
                   raised == process_raises(unique_results)
                   found == IF raised THEN <<>>
                            ELSE process_results(unique_results, task, uuid_counter + 1)
               IN  /\ search_queries_used' = acc.used
                   /\ api_calls_count' = acc.api_calls
                   /\ search_log' = acc.log
                   /\ skipped_queries' = acc.skipped
                   /\ findings' = IF raised THEN findings
                                  ELSE extend_findings(findings, found)
                   /\ covered_topics' = IF raised THEN covered_topics
                                        ELSE Append(covered_topics, task.topic)
                   /\ errors' = IF raised
                                THEN Append(errors, [agent |-> "research",
                                                     error_type |-> "TypeError",
                                                     recoverable |-> TRUE])
                                ELSE errors
                   /\ uuid_counter' = uuid_counter + Len(found)
                   /\ last_collection' =
                         IF raised THEN None
                         ELSE Some([task |-> task, unique_results |-> unique_results,
                                    first_id |-> uuid_counter + 1])
                   /\ last_search' =
                         LET issued == SubSeq(acc.log, Len(search_log) + 1, Len(acc.log))
                         IN  Some([task_id |-> task.task_id,
                                   topic |-> task.topic,
                                   queries |-> queries,
                                   issued |-> Len(issued),
                                   failed |-> Len(SelectSeq(issued,
                                                 LAMBDA q : search_failed(q, behaviour))),
                                   client_calls |->
                                       SumSeq([i \in 1..Len(issued) |->
                                                  client_calls(issued[i], behaviour)]),
                                   raised |-> raised,
                                   qualified |-> qualified_before_raise(unique_results, task),
                                   findings_before |-> Len(findings),
                                   errors_before |-> Len(errors)])
                   /\ research_plan' = mark_task_completed(research_plan, current_task)
    /\ node_runs' = [node_runs EXCEPT !.researcher = @ + 1]
    /\ pc' = "analyst"
    /\ UNCHANGED <<tavily_client, max_iterations, iteration_count, current_task,
                   insights, recommendations, quality_metrics, needs_more_research,
                   has_critical_error, status, final_report, decision,
                   plan_next_task, last_analysis, tool_vars>>

\* mutant: with empty evidence the analyst also empties insights and
\* recommendations
analyst_resetting ==
    /\ pc = "analyst"
    /\ IF findings = <<>>
       THEN /\ needs_more_research' = TRUE
            /\ insights' = <<>>
            /\ recommendations' = <<>>
            /\ last_analysis' = None
            /\ UNCHANGED uuid_counter
       ELSE \E ir \in InsightResponses, rr \in RecResponses :
               LET new_insights == generate_insights(ir, findings, uuid_counter + 1)
                   new_recs == generate_recommendations(
                                   rr, new_insights, uuid_counter + Len(new_insights) + 1)
               IN  /\ insights' = store_insights(insights, new_insights)
                   /\ recommendations' = new_recs
                   /\ uuid_counter' = uuid_counter + Len(new_insights) + Len(new_recs)
                   /\ needs_more_research' =
                         evaluate_completeness([State EXCEPT !.insights = insights'])
                   /\ last_analysis' =
                         Some([insights_failed |-> response_failed(ir),
                               recommendations_failed |->
                                   new_insights # <<>> /\ response_failed(rr)])
    /\ node_runs' = [node_runs EXCEPT !.analyst = @ + 1]
    /\ pc' = "route"
    /\ UNCHANGED <<tavily_client, max_iterations, iteration_count, research_plan,
                   current_task, findings, search_queries_used, api_calls_count,
                   covered_topics, quality_metrics, errors, has_critical_error, status,
                   final_report, search_log, skipped_queries, decision,
                   last_collection, last_search, plan_next_task, tool_vars>>

\* _analyst_node: analyze_findings
analyst ==
    /\ pc = "analyst"
    /\ IF findings = <<>>
       THEN /\ needs_more_research' = TRUE
            /\ last_analysis' = None
            /\ UNCHANGED <<insights, recommendations, uuid_counter>>
       ELSE \E ir \in InsightResponses, rr \in RecResponses :
               LET new_insights == generate_insights(ir, findings, uuid_counter + 1)
                   new_recs == generate_recommendations(
                                   rr, new_insights, uuid_counter + Len(new_insights) + 1)
               IN  /\ insights' = store_insights(insights, new_insights)
                   /\ recommendations' = new_recs
                   /\ uuid_counter' = uuid_counter + Len(new_insights) + Len(new_recs)
                   /\ needs_more_research' =
                         evaluate_completeness([State EXCEPT !.insights = insights'])
                   /\ last_analysis' =
                         Some([insights_failed |-> response_failed(ir),
                               recommendations_failed |->
                                   new_insights # <<>> /\ response_failed(rr)])
    /\ node_runs' = [node_runs EXCEPT !.analyst = @ + 1]
    /\ pc' = "route"
    /\ UNCHANGED <<tavily_client, max_iterations, iteration_count, research_plan,
                   current_task, findings, search_queries_used, api_calls_count,
                   covered_topics, quality_metrics, errors, has_critical_error, status,
                   final_report, search_log, skipped_queries, decision, last_collection, last_search,
                   plan_next_task, tool_vars>>

\* mutant: "continue" leads to the researcher, past the planner
route_past_planner(answer) ==
    IF answer = "continue" THEN "researcher" ELSE "finalizer"

\* add_conditional_edges("analyst", _should_continue,
\*                       {"continue": "planner", "finalize": "finalizer"})
route_to(answer) ==
    IF answer = "continue" THEN "planner" ELSE "finalizer"

\* _should_continue: the conditional edge after the analyst
should_continue ==
    /\ pc = "route"
    /\ decision' = decide_next_action(State)
    /\ quality_metrics' = metrics_after_decision(State, quality_metrics)
    /\ pc' = route_to(decision')
    /\ UNCHANGED <<tavily_client, max_iterations, iteration_count, research_plan,
                   current_task, findings, search_queries_used, api_calls_count,
                   covered_topics, insights, recommendations, errors,
                   needs_more_research, has_critical_error, status, final_report,
                   uuid_counter, search_log, skipped_queries, node_runs, last_collection, last_search,
                   plan_next_task, last_analysis, tool_vars>>

\* _finalize_node
finalizer ==
    /\ pc = "finalizer"
    /\ final_report' =
          Some([insights |-> insights, recommendations |-> recommendations,
                sources |-> extract_sources(findings),
                quality_metrics |-> quality_metrics,
                metadata |-> [iterations |-> iteration_count,
                              total_findings |-> Len(findings),
                              api_calls |-> api_calls_count]])
    /\ status' = "completed"
    /\ node_runs' = [node_runs EXCEPT !.finalizer = @ + 1]
    /\ pc' = "done"
    /\ UNCHANGED <<tavily_client, max_iterations, iteration_count, research_plan,
                   current_task, findings, search_queries_used, api_calls_count,
                   covered_topics, insights, recommendations, quality_metrics, errors,
                   needs_more_research, has_critical_error, uuid_counter, search_log,
                   skipped_queries, decision, last_collection, last_search,
                   plan_next_task, last_analysis, tool_vars>>

\* create_initial_state(query, requirements) and the construction of the agents,
\* for a run started with max_iterations <= limit
InitState(first_pc, limits) ==
    /\ pc = first_pc
    /\ tavily_client \in BOOLEAN
    /\ max_iterations \in limits
    /\ iteration_count = 0
    /\ research_plan = <<>>
    /\ current_task = 0
    /\ findings = <<>>
    /\ search_queries_used = <<>>
    /\ api_calls_count = 0
    /\ covered_topics = <<>>
    /\ insights = <<>>
    /\ recommendations = <<>>
    /\ quality_metrics = None
    /\ errors = <<>>
    /\ needs_more_research = TRUE
    /\ has_critical_error = FALSE
    /\ status = "planning"
    /\ final_report = None
    /\ uuid_counter = 0
    /\ search_log = <<>>
    /\ skipped_queries = 0
    /\ node_runs = [planner |-> 0, researcher |-> 0, analyst |-> 0, finalizer |-> 0]
    /\ decision = "none"
    /\ last_collection = None
    /\ last_search = None
    /\ plan_next_task = None
    /\ last_analysis = None
    /\ tool_in = <<>>
    /\ tool_out = <<>>
    /\ tool_stage = "off"

\* a run whose workflow has been entered with 1 <= max_iterations <= limit
InitUpTo(limit) == InitState("planner", 1..limit)

Init == InitUpTo(MaxIterations)

Next == planner \/ researcher \/ analyst \/ should_continue \/ finalizer

Spec == Init /\ [][Next]_vars

\* the graph runs a node whenever one is due
InitFair == InitUpTo(MaxFairIterations)

FairSpec == InitFair /\ [][Next]_vars /\ WF_vars(Next)

\* ------------------------------------------- research() with any configuration
\* mutant: every configuration is accepted
accepts_any_configuration(limit) == TRUE

\* create_initial_state rejects a configuration with max_iterations < 1
\* (state/research_state.py is absent; the rule is the spec's)
accepts_configuration(limit) == limit >= 1

\* research: create_initial_state, then the workflow; an exception is logged
\* and raised again
research ==
    /\ pc = "start"
    /\ pc' = IF accepts_configuration(max_iterations) THEN "planner" ELSE "failed"
    /\ UNCHANGED <<tavily_client, max_iterations, iteration_count, research_plan,
                   current_task, findings, search_queries_used, api_calls_count,
                   covered_topics, insights, recommendations, quality_metrics, errors,
                   needs_more_research, has_critical_error, status, final_report,
                   uuid_counter, search_log, skipped_queries, node_runs, decision,
                   last_collection, last_search, plan_next_task, last_analysis, tool_vars>>

InitRun == InitState("start", 0..MaxIterations)

NextRun == research \/ Next

SpecRun == InitRun /\ [][NextRun]_vars

\* ------------------------------------- the decision functions on their own
\* analyze_findings and decide_next_action applied to a state whose fields are
\* drawn from small sets (has_critical_error is read by decide_next_action and
\* written nowhere in src/; it is drawn like the other fields).
FindingLow ==
    [finding_id |-> 2, task_id |-> 1, source_url |-> <<"a">>, source_title |-> TitleShort,
     source_quality |-> 50, relevance_score |-> 50]
FindingHigh ==
    [finding_id |-> 2, task_id |-> 1, source_url |-> <<"e">>, source_title |-> TitleLong,
     source_quality |-> 100, relevance_score |-> 100]
FiveInsights ==
    [i \in 1..5 |-> [insight_id |-> 2 + i, supporting_findings |-> <<2>>,
                     confidence |-> 80, priority |-> 3]]

InitDecide ==
    /\ pc \in {"analyst", "route"}
    /\ tavily_client = TRUE
    /\ max_iterations \in 1..MaxDecideIter
    /\ iteration_count \in 1..max_iterations
    /\ research_plan = << [task_id |-> 1, description |-> DescA, topic |-> "pricing",
                           priority |-> 3, status |-> "completed"] >>
    /\ current_task = 1
    /\ findings \in {<<>>, <<FindingLow>>, <<FindingHigh>>}
    /\ search_queries_used = <<DescA>>
    /\ api_calls_count = 1
    /\ covered_topics \in {<<>>, <<"pricing">>}
    /\ insights \in {<<>>, FiveInsights}
    /\ recommendations = <<>>
    /\ quality_metrics = None
    /\ errors = <<>>
    /\ needs_more_research \in BOOLEAN
    /\ has_critical_error \in BOOLEAN
    /\ status = "researching"
    /\ final_report = None
    /\ uuid_counter = 7
    /\ search_log = <<DescA>>
    /\ skipped_queries = 0
    /\ node_runs = [planner |-> 0, researcher |-> 0, analyst |-> 0, finalizer |-> 0]
    /\ decision = "none"
    /\ last_collection = None
    /\ last_search = None
    /\ plan_next_task = None
    /\ last_analysis = None
    /\ tool_in = <<>>
    /\ tool_out = <<>>
    /\ tool_stage = "off"

NextDecide == analyst \/ should_continue

SpecDecide == InitDecide /\ [][NextDecide]_vars

\* --------------------------------------------- the search tools on their own
\* deduplicate_results and _process_results applied to result lists drawn from
\* a pool of results.
ResultSlash ==
    [title |-> TitleShort, url |-> <<"/">>,
     content |-> [none |-> FALSE, len |-> 1000, words |-> {"q", "players", "key"}]]

ResultPool ==
    {ResultGood, ResultDup, ResultOff, ResultPlain, ResultNull, ResultNoUrl, ResultSlash}

ToolTasks ==
    { [task_id |-> 1, description |-> DescA, topic |-> "pricing", priority |-> 3,
       status |-> "in_progress"],
      [task_id |-> 1, description |-> Desc3, topic |-> "stakeholder_analysis",
       priority |-> 3, status |-> "in_progress"] }

SeqsUpTo(S, n) == UNION {[1..k -> S] : k \in 0..n}

InitTools ==
    /\ pc = "done"
    /\ tavily_client = TRUE
    /\ max_iterations = 1
    /\ iteration_count = 0
    /\ research_plan = <<>>
    /\ current_task = 0
    /\ findings = <<>>
    /\ search_queries_used = <<>>
    /\ api_calls_count = 0
    /\ covered_topics = <<>>
    /\ insights = <<>>
    /\ recommendations = <<>>
    /\ quality_metrics = None
    /\ errors = <<>>
    /\ needs_more_research = TRUE
    /\ has_critical_error = FALSE
    /\ status = "planning"
    /\ final_report = None
    /\ uuid_counter = 0
    /\ search_log = <<>>
    /\ skipped_queries = 0
    /\ node_runs = [planner |-> 0, researcher |-> 0, analyst |-> 0, finalizer |-> 0]
    /\ decision = "none"
    /\ last_collection = None
    /\ last_search = None
    /\ plan_next_task = None
    /\ last_analysis = None
    /\ tool_in \in [results : SeqsUpTo(ResultPool, MaxLen), task : ToolTasks]
    /\ tool_out = [unique |-> <<>>, again |-> <<>>, raised |-> FALSE, found |-> <<>>]
    /\ tool_stage = "raw"

\* unique_results = deduplicate_results(all_results)
tool_dedup ==
    /\ tool_stage = "raw"
    /\ tool_out' = [tool_out EXCEPT !.unique = deduplicate_results(tool_in.results)]
    /\ tool_stage' = "unique"
    /\ UNCHANGED <<loop_vars, tool_in>>

\* deduplicate_results applied to its own output
tool_dedup_again ==
    /\ tool_stage = "unique"
    /\ tool_out' = [tool_out EXCEPT !.again = deduplicate_results(tool_out.unique)]
    /\ tool_stage' = "again"
    /\ UNCHANGED <<loop_vars, tool_in>>

\* findings = _process_results(unique_results, current_task, state)
tool_process ==
    /\ tool_stage = "again"
    /\ tool_out' =
          IF process_raises(tool_out.unique)
          THEN [tool_out EXCEPT !.raised = TRUE]
          ELSE [tool_out EXCEPT !.found = process_results(tool_out.unique, tool_in.task, 1)]
    /\ tool_stage' = "processed"
    /\ UNCHANGED <<loop_vars, tool_in>>

NextTools == tool_dedup \/ tool_dedup_again \/ tool_process

SpecTools == InitTools /\ [][NextTools]_vars

\* ----------------------------------------------- get_next_task on its own
\* get_next_task applied to a backlog drawn from small sets: up to MaxLen
\* tasks, any statuses with at most one task in progress, equal and different
\* priorities.
QueueTasks ==
    [task_id : {0}, description : {DescA}, topic : {"pricing"},
     priority : {1, 3, 5}, status : {"pending", "in_progress", "completed"}]

QueuePlans ==
    {[i \in 1..Len(q) |-> [q[i] EXCEPT !.task_id = i]] :
        q \in {p \in SeqsUpTo(QueueTasks, MaxLen) :
                  Cardinality({i \in 1..Len(p) : p[i].status = "in_progress"}) <= 1}}

InitQueue ==
    /\ pc = "done"
    /\ tavily_client = TRUE
    /\ max_iterations = 1
    /\ iteration_count \in {0, 1}
    /\ research_plan \in QueuePlans
    /\ current_task = 0
    /\ findings = <<>>
    /\ search_queries_used = <<>>
    /\ api_calls_count = 0
    /\ covered_topics = <<>>
    /\ insights = <<>>
    /\ recommendations = <<>>
    /\ quality_metrics = None
    /\ errors = <<>>
    /\ needs_more_research = TRUE
    /\ has_critical_error = FALSE
    /\ status = "researching"
    /\ final_report = None
    /\ uuid_counter = 0
    /\ search_log = <<>>
    /\ skipped_queries = 0
    /\ node_runs = [planner |-> 0, researcher |-> 0, analyst |-> 0, finalizer |-> 0]
    /\ decision = "none"
    /\ last_collection = None
    /\ last_search = None
    /\ plan_next_task = None
    /\ last_analysis = None
    /\ tool_in = [plan |-> research_plan]
    /\ tool_out = [next_task |-> None, marked |-> None]
    /\ tool_stage = "queue"

\* next_task = self.orchestrator.get_next_task(state): the filter builds a new
\* list and the sort is applied to that list, so the state is left as it was
tool_next_task ==
    /\ tool_stage = "queue"
    /\ tool_out' = [tool_out EXCEPT !.next_task = get_next_task(research_plan)]
    /\ tool_stage' = "selected"
    /\ UNCHANGED <<loop_vars, tool_in>>

\* self.orchestrator.mark_task_completed(state, task_id) with the id of a task
\* of the backlog or an id no task has (0 and MaxLen + 1)
tool_mark_completed ==
    /\ tool_stage = "selected"
    /\ \E task_id \in 0..(MaxLen + 1) :
          /\ research_plan' = mark_task_completed(research_plan, task_id)
          /\ tool_out' = [tool_out EXCEPT !.marked = Some(task_id)]
    /\ tool_stage' = "marked"
    /\ UNCHANGED <<pc, tavily_client, max_iterations, iteration_count, current_task,
                   findings, search_queries_used, api_calls_count, covered_topics,
                   insights, recommendations, quality_metrics, errors,
                   needs_more_research, has_critical_error, status, final_report,
                   uuid_counter, search_log, skipped_queries, node_runs, decision,
                   last_collection, last_search, plan_next_task, last_analysis,
                   tool_in>>

NextQueue == tool_next_task \/ tool_mark_completed

SpecQueue == InitQueue /\ [][NextQueue]_vars

\* ------------------------------------------------------------------- claims
NoDuplicates(seq) == \A i, j \in 1..Len(seq) : i # j => seq[i] # seq[j]

IsPrefix(old, new) ==
    Len(new) >= Len(old) /\ SubSeq(new, 1, Len(old)) = old

RoutingRules(st) ==
    << [applies |-> st.iteration_count >= st.max_iterations, result |-> "finalize"],
       [applies |-> is_quality_sufficient(calculate_quality_metrics(st)),
        result |-> "finalize"],
       [applies |-> st.needs_more_research = TRUE, result |-> "continue"],
       [applies |-> st.has_critical_error, result |-> "finalize"],
       [applies |-> TRUE,
        result |-> IF Len(st.findings) > 0 THEN "continue" ELSE "finalize"] >>

FirstApplicable(rules) ==
    rules[CHOOSE i \in 1..Len(rules) :
             rules[i].applies /\ \A j \in 1..(i - 1) : ~rules[j].applies].result

\* C2: the decision returned after the analyst is the result of the first
\* routing rule that applies (limit, sufficient quality, more research asked,
\* critical error, evidence present); a state with sufficient quality at
\* iteration 1 of 5 is routed to finalize.
C2_RoutingOrder ==
    decision # "none" =>
        /\ decision = FirstApplicable(RoutingRules(State))
        /\ (/\ iteration_count = 1
            /\ max_iterations = 5
            /\ is_quality_sufficient(calculate_quality_metrics(State)))
           => decision = "finalize"

\* sufficient quality after iteration 1 of 5, routed
C2_Witness ==
    /\ decision = "finalize"
    /\ iteration_count = 1
    /\ max_iterations = 5
    /\ is_quality_sufficient(calculate_quality_metrics(State))

HighConfidenceCount(ins) ==
    Cardinality({i \in 1..Len(ins) : ins[i].confidence >= 70})

\* The completeness rules of the specification: TRUE when more research is needed.
CompletenessRules(st) ==
    << [applies |-> is_quality_sufficient(calculate_quality_metrics(st)),
        result |-> FALSE],
       [applies |-> HighConfidenceCount(st.insights) >= 5, result |-> FALSE],
       [applies |-> st.iteration_count >= st.max_iterations - 1, result |-> FALSE],
       [applies |-> TRUE, result |-> TRUE] >>

\* C3: after an analysis pass on non-empty evidence needs_more_research is the
\* result of the ordered completeness check (sufficient quality, five
\* high-confidence insights, one iteration before the limit, else more research).
C3_CompletenessOrder ==
    (pc = "route" /\ node_runs.analyst > 0 /\ findings # <<>>) =>
        needs_more_research = FirstApplicable(CompletenessRules(State))

\* a pass that asked for more research, and none of the three stop rules applied
C3_Witness ==
    /\ pc = "route"
    /\ node_runs.analyst > 0
    /\ findings # <<>>
    /\ needs_more_research
    /\ insights # <<>>
    /\ iteration_count = max_iterations - 2

\* C4: over a whole run search_web is called with any query at most once.
C4_NoRepeatedQueries == NoDuplicates(search_log)

\* a collection for a task that was already completed (no task was pending)
\* met queries that had been used
C4_Witness ==
    /\ pc = "analyst"
    /\ research_plan # <<>>
    /\ iteration_count > Len(research_plan)
    /\ skipped_queries > 0
    /\ Len(search_log) >= 2

\* C5: every step leaves the evidence before it as a prefix of the evidence after it.
C5_MonotonicEvidence == [][IsPrefix(findings, findings')]_vars

\* evidence of two tasks, a failed collection in between or after, run finished
C5_Witness ==
    /\ pc = "done"
    /\ errors # <<>>
    /\ Len(findings) >= 2
    /\ \E i, j \in 1..Len(findings) : findings[i].task_id # findings[j].task_id

\* the scores _process_results computes for a result and a task
ResultQuality(result) ==
    evaluate_source_quality(result.url, result.title, result.content)
ResultRelevance(result, task) ==
    calculate_relevance(task.description, result.content, result.title)

AdmittedBy(collection, result) ==
    \E i \in 1..Len(findings) :
        /\ findings[i].finding_id >= collection.first_id
        /\ findings[i].task_id = collection.task.task_id
        /\ findings[i].source_url = result.url

\* C6: every finding in the evidence has quality >= 0.4 and relevance >= 0.3; of
\* the deduplicated results of a collection exactly those that meet both
\* thresholds were admitted; quality 0.5 with relevance 0.2 and quality 0.3 with
\* relevance 0.9 do not pass the test.
C6_QualityGate ==
    /\ \A i \in 1..Len(findings) :
          findings[i].source_quality >= 40 /\ findings[i].relevance_score >= 30
    /\ last_collection # None =>
          \A k \in 1..Len(last_collection[1].unique_results) :
              LET result == last_collection[1].unique_results[k]
              IN  AdmittedBy(last_collection[1], result)
                  <=> (/\ ResultQuality(result) >= 40
                       /\ ResultRelevance(result, last_collection[1].task) >= 30)
    /\ ~meets_thresholds(50, 20)
    /\ ~meets_thresholds(30, 90)

\* a collection that admitted one result and excluded another for its relevance alone
C6_Witness ==
    /\ last_collection # None
    /\ \E k, m \in 1..Len(last_collection[1].unique_results) :
          /\ AdmittedBy(last_collection[1], last_collection[1].unique_results[k])
          /\ ~AdmittedBy(last_collection[1], last_collection[1].unique_results[m])
          /\ ResultQuality(last_collection[1].unique_results[m]) >= 40
          /\ ResultRelevance(last_collection[1].unique_results[m],
                             last_collection[1].task) < 30

\* C7: an analysis pass on non-empty evidence leaves in insights and
\* recommendations exactly the records it created (all their ids are new, and
\* every id the pass took is in one of the two lists).
C7_InsightReplacement ==
    [][(pc = "analyst" /\ findings # <<>>) =>
          /\ \A i \in 1..Len(insights') : insights'[i].insight_id > uuid_counter
          /\ \A i \in 1..Len(recommendations') :
                recommendations'[i].recommendation_id > uuid_counter
          /\ Len(insights') + Len(recommendations') = uuid_counter' - uuid_counter]_vars

\* after a later pass: insights are held, and more ids were handed out than the
\* plan, the evidence and the held records account for (an earlier pass had made some)
C7_Witness ==
    /\ pc = "route"
    /\ node_runs.analyst >= 2
    /\ insights # <<>>
    /\ uuid_counter > Len(research_plan) + Len(findings) + Len(insights)
                         + Len(recommendations)

\* C8: deduplicating a deduplicated list changes nothing.
C8_DedupIdempotent ==
    tool_stage \in {"again", "processed"} => tool_out.again = tool_out.unique

\* a list from which duplicates were dropped, deduplicated twice
C8_Witness ==
    /\ tool_stage = "again"
    /\ Len(tool_out.unique) >= 2
    /\ Len(tool_out.unique) < Len(tool_in.results)

\* the positions of the items that are the first with their normalized URL
FirstPositions(xs) ==
    {i \in 1..Len(xs) :
        \A j \in 1..(i - 1) : normalize_url(xs[j].url) # normalize_url(xs[i].url)}

\* the items of xs at the positions in P, in the order of xs
AtPositions(xs, P) ==
    [k \in 1..Cardinality(P) |->
        xs[CHOOSE i \in P : Cardinality({j \in P : j < i}) = k - 1]]

\* C9: the output holds, in input order, exactly the first item of each
\* normalized URL, and no two of its items share a normalized URL.
C9_DedupKeepsFirst ==
    tool_stage # "raw" =>
        /\ tool_out.unique = AtPositions(tool_in.results, FirstPositions(tool_in.results))
        /\ \A i, j \in 1..Len(tool_out.unique) :
              i # j => normalize_url(tool_out.unique[i].url)
                          # normalize_url(tool_out.unique[j].url)

\* two items whose URLs differ as written and agree once normalized; the later was dropped
C9_Witness ==
    /\ tool_stage = "unique"
    /\ Len(tool_out.unique) >= 2
    /\ \E i, j \in 1..Len(tool_in.results) :
          /\ i < j
          /\ tool_in.results[i].url # tool_in.results[j].url
          /\ normalize_url(tool_in.results[i].url) = normalize_url(tool_in.results[j].url)
          /\ tool_in.results[j] \notin Range(tool_out.unique)

\* C10: a run with max_iterations = 1 ends after the planner, the researcher and
\* the analyst ran once each, and its report says iterations = 1.
C10_SingleIteration ==
    (pc = "done" /\ max_iterations = 1) =>
        /\ node_runs = [planner |-> 1, researcher |-> 1, analyst |-> 1, finalizer |-> 1]
        /\ final_report # None
        /\ final_report[1].metadata.iterations = 1

\* such a run, finished, with evidence
C10_Witness ==
    /\ pc = "done"
    /\ max_iterations = 1
    /\ findings # <<>>
    /\ final_report # None

\* C11: the report's source list is derived from the evidence (every entry is
\* the title, URL and quality of a finding), has no two entries with the same
\* URL, has an entry for every non-empty source URL of the evidence, and is in
\* non-increasing order of quality score.
C11_SourceList ==
    final_report # None =>
        LET sources == final_report[1].sources
        IN  /\ \A i \in 1..Len(sources) :
                  \E j \in 1..Len(findings) :
                      /\ sources[i].url = findings[j].source_url
                      /\ sources[i].title = findings[j].source_title
                      /\ sources[i].quality_score = findings[j].source_quality
            /\ \A i, j \in 1..Len(sources) : i # j => sources[i].url # sources[j].url
            /\ \A j \in 1..Len(findings) :
                  findings[j].source_url # <<>> =>
                      \E i \in 1..Len(sources) : sources[i].url = findings[j].source_url
            /\ \A i \in 1..(Len(sources) - 1) :
                  sources[i].quality_score >= sources[i + 1].quality_score

\* a report over evidence that holds the same URL twice, a finding without URL,
\* and a better source found after a worse one
C11_Witness ==
    /\ final_report # None
    /\ Len(final_report[1].sources) >= 2
    /\ \E i, j \in 1..Len(findings) :
          i # j /\ findings[i].source_url = findings[j].source_url
                /\ findings[i].source_url # <<>>
    /\ \E i \in 1..Len(findings) : findings[i].source_url = <<>>
    /\ \E i, j \in 1..Len(findings) :
          /\ i < j
          /\ findings[i].source_url # <<>> /\ findings[j].source_url # <<>>
          /\ findings[i].source_quality < findings[j].source_quality

\* the status of the task with this id in the backlog
TaskStatus(task_id) == research_plan[task_index(research_plan, task_id)].status

\* the latest collection issued at least one query and the evidence source
\* failed for every one of them
AllSearchesFailed ==
    /\ last_search # None
    /\ last_search[1].issued > 0
    /\ last_search[1].failed = last_search[1].issued

\* C12: when the evidence source fails for every query issued for a task, the
\* task is completed, no finding was added to the evidence, exactly one entry
\* was appended to errors, and after the analyst needs_more_research is true.
C12_FailedSearch ==
    (AllSearchesFailed /\ pc \in {"analyst", "route"}) =>
        /\ TaskStatus(last_search[1].task_id) = "completed"
        /\ Len(findings) = last_search[1].findings_before
        /\ Len(errors) = last_search[1].errors_before + 1
        /\ (pc = "route" => needs_more_research)

\* C13: after planning in the first iteration, whatever the text-generation
\* service did, the backlog is non-empty and its tasks are pending (the
\* planner node has by then moved the one task it selected to in_progress).
C13_PlanNeverEmpty ==
    (iteration_count = 1 /\ pc = "researcher") =>
        /\ research_plan # <<>>
        /\ \A i \in 1..Len(research_plan) :
              \/ research_plan[i].status = "pending"
              \/ /\ research_plan[i].task_id = current_task
                 /\ research_plan[i].status = "in_progress"

\* C14: when the planner finds no pending task at the start of an iteration it
\* sets needs_more_research to false, and the routing decision of that same
\* iteration is finalize.
C14_NoTaskFinalizes ==
    (plan_next_task = None /\ iteration_count >= 1) =>
        /\ (pc = "researcher" => ~needs_more_research)
        /\ (pc \in {"planner", "finalizer", "done"} => decision = "finalize")

\* C15: a run started with max_iterations < 1 fails before the loop starts:
\* no planner, researcher or analyst step runs and no report is produced.
C15_InvalidConfigFailsFast ==
    max_iterations < 1 =>
        /\ node_runs.planner = 0 /\ node_runs.researcher = 0
        /\ node_runs.analyst = 0 /\ node_runs.finalizer = 0
        /\ final_report = None
        /\ status # "completed"

\* research() was called with max_iterations = 0 and has failed
C15_Witness == max_iterations < 1 /\ pc = "failed"

\* the positions of the backlog whose task has this status
WithStatus(plan, st) == {i \in 1..Len(plan) : plan[i].status = st}

\* C16: in every reachable state at most one task of the backlog is in_progress.
C16_OneInProgress == Cardinality(WithStatus(research_plan, "in_progress")) <= 1

\* a later iteration: one task is in progress, another is completed already
C16_Witness ==
    /\ Cardinality(WithStatus(research_plan, "in_progress")) = 1
    /\ WithStatus(research_plan, "completed") # {}
    /\ WithStatus(research_plan, "pending") # {}

\* C17: a task's status changes only from pending to in_progress and from
\* in_progress to completed: it never returns to pending, never leaves
\* completed, and never goes from pending to completed in one step.
C17_TaskLifecycle ==
    [][\A i \in 1..Len(research_plan) :
          /\ i <= Len(research_plan')
          /\ research_plan'[i].task_id = research_plan[i].task_id
          /\ \/ research_plan'[i].status = research_plan[i].status
             \/ /\ research_plan[i].status = "pending"
                /\ research_plan'[i].status = "in_progress"
             \/ /\ research_plan[i].status = "in_progress"
                /\ research_plan'[i].status = "completed"]_vars

\* every task of a plan of three has been selected and completed in turn
C17_Witness ==
    /\ Len(research_plan) = 3
    /\ WithStatus(research_plan, "completed") = {1, 2, 3}
    /\ node_runs.researcher = 3

\* the positions of the pending tasks that no pending task outranks
TopPending(plan) ==
    {i \in WithStatus(plan, "pending") :
        \A j \in WithStatus(plan, "pending") : plan[j].priority <= plan[i].priority}

\* C18: get_next_task returns none when no task is pending, otherwise the
\* pending task of highest priority that is earliest in the backlog; the
\* backlog (order and statuses) is as it was before the call.
C18_NextTask ==
    tool_stage = "selected" =>
        /\ research_plan = tool_in.plan
        /\ IF WithStatus(tool_in.plan, "pending") = {}
           THEN tool_out.next_task = None
           ELSE /\ tool_out.next_task # None
                /\ \E i \in TopPending(tool_in.plan) :
                      /\ \A j \in TopPending(tool_in.plan) : i <= j
                      /\ tool_out.next_task[1] = tool_in.plan[i]

\* the call chose the earlier of two pending tasks of equal, highest priority
\* that stand behind a pending task of lower priority
C18_Witness ==
    /\ tool_stage = "selected"
    /\ Len(tool_in.plan) = 3
    /\ TopPending(tool_in.plan) = {2, 3}
    /\ tool_in.plan[1].status = "pending"
    /\ tool_out.next_task = Some(tool_in.plan[2])

\* C19: after the collector has run for a selected task, the task's topic is
\* in covered_topics, also when no finding was admitted, when every query was
\* skipped, and when search or scoring raised.
C19_TopicCovered ==
    (last_search # None /\ pc = "analyst") =>
        last_search[1].topic \in Range(covered_topics)

\* C20: when search or scoring raises for a task, one entry with
\* recoverable = true is appended to errors, the analyst runs next, and the
\* findings of the task that had qualified before the exception are in the
\* evidence.
C20_PartialProgressKept ==
    (last_search # None /\ last_search[1].raised /\ pc = "analyst") =>
        /\ Len(errors) = last_search[1].errors_before + 1
        /\ errors[Len(errors)].recoverable
        /\ Len(findings) = last_search[1].findings_before + last_search[1].qualified
        /\ \A i \in (last_search[1].findings_before + 1)..Len(findings) :
              findings[i].task_id = last_search[1].task_id

\* C21: for every task the collector runs for (a task the planner selected in
\* this iteration), at least one query is issued to the evidence source,
\* whatever the query derivation returned.
C21_AtLeastOneSearch ==
    (last_search # None /\ plan_next_task # None /\ pc = "analyst") =>
        last_search[1].issued >= 1

\* C22: in an iteration where the planner found no pending task, current_task
\* is empty when the collector runs, and the collector does nothing.
C22_CurrentTaskCleared ==
    (plan_next_task = None /\ iteration_count >= 1) =>
        /\ (pc = "researcher" => current_task = 0)
        /\ (pc = "analyst" => last_search = None)

\* the analyst answered "no more research" by the iteration rule: evidence is
\* non-empty, quality is insufficient, fewer than five insights are of high
\* confidence, and iteration_count >= max_iterations - 1
StoppedByIterationRule ==
    /\ pc = "route"
    /\ max_iterations >= 2
    /\ findings # <<>>
    /\ ~needs_more_research
    /\ ~is_quality_sufficient(calculate_quality_metrics(State))
    /\ HighConfidenceCount(insights) < EnoughHighConfidence
    /\ iteration_count >= max_iterations - 1

\* C23: when the completeness check answers "no more research" because
\* iteration_count >= max_iterations - 1, the routing decision that follows
\* is finalize: no further iteration runs.
C23_ConvergesBeforeCap ==
    [][StoppedByIterationRule => (decision' = "finalize" /\ pc' = "finalizer")]_vars

\* C24: after every routing decision, the finalizing one at the iteration
\* limit included, quality_metrics holds the metrics of the current state, and
\* the report carries these metrics.
C24_MetricsRecomputed ==
    /\ (pc \in {"planner", "finalizer"} /\ decision # "none") =>
           quality_metrics = Some(calculate_quality_metrics(State))
    /\ final_report # None =>
           final_report[1].quality_metrics = Some(calculate_quality_metrics(State))

\* C25: when the analyst runs with empty evidence it sets needs_more_research
\* to true and changes no other field of the state.
C25_EmptyEvidenceFrame ==
    [][(pc = "analyst" /\ findings = <<>>) =>
          /\ needs_more_research' = TRUE
          /\ UNCHANGED <<insights, recommendations, errors, findings, research_plan,
                         current_task, iteration_count, max_iterations, status,
                         covered_topics, search_queries_used, api_calls_count,
                         quality_metrics, has_critical_error, final_report>>]_vars

\* the analyst has run on empty evidence in a state that held insights and
\* now asks for more research
C25_Witness ==
    /\ pc = "route"
    /\ node_runs.analyst = 1
    /\ findings = <<>>
    /\ insights = FiveInsights
    /\ needs_more_research

\* C26: mark_task_completed with an id no task of the backlog has leaves the
\* backlog as it was; with the id of a task it sets that task's status to
\* completed and changes nothing else of the backlog.
C26_MarkCompleted ==
    tool_stage = "marked" =>
        LET before == tool_in.plan
            task_id == tool_out.marked[1]
            hits == {i \in 1..Len(before) : before[i].task_id = task_id}
        IN  IF hits = {}
            THEN research_plan = before
            ELSE /\ Len(research_plan) = Len(before)
                 /\ \A i \in 1..Len(before) :
                       IF i \in hits
                       THEN research_plan[i] = [before[i] EXCEPT !.status = "completed"]
                       ELSE research_plan[i] = before[i]

\* the call was made with an id no task has, on a backlog of three tasks with
\* one pending and one in progress
C26_Witness ==
    /\ tool_stage = "marked"
    /\ tool_out.marked = Some(MaxLen + 1)
    /\ Len(tool_in.plan) = 3
    /\ tool_in.plan[2].status = "in_progress"
    /\ tool_in.plan[3].status = "pending"

\* C27: after an analysis pass in which insight generation or parsing failed,
\* insights and recommendations are both empty; after a pass in which only
\* recommendation generation or parsing failed, recommendations is empty (the
\* insights of the pass are kept).
C27_FailureGivesEmptyLists ==
    (pc = "route" /\ last_analysis # None) =>
        /\ last_analysis[1].insights_failed =>
               (insights = <<>> /\ recommendations = <<>>)
        /\ last_analysis[1].recommendations_failed => recommendations = <<>>

StatusRank(s) ==
    CASE s = "planning" -> 0
      [] s = "researching" -> 1
      [] s = "completed" -> 2

\* C28: status never moves backward in planning, researching, completed; it
\* becomes completed only in the step of the finalizer; once completed it
\* stays completed.
C28_StatusMonotonic ==
    [][/\ StatusRank(status') >= StatusRank(status)
       /\ (status' = "completed" /\ status # "completed") => pc = "finalizer"
       /\ status = "completed" => status' = "completed"]_vars

\* a run of two passes has ended: planning, researching through the second
\* planner step, completed by the finalizer
C28_Witness ==
    /\ pc = "done"
    /\ status = "completed"
    /\ node_runs.planner = 2

\* C29: every planner step adds exactly 1 to iteration_count, whether or not
\* it selected a task, and no other step changes it, so iteration_count is
\* the number of planner steps taken.
C29_OnePerPass ==
    /\ [](iteration_count = node_runs.planner)
    /\ [][IF pc = "planner"
          THEN iteration_count' = iteration_count + 1
          ELSE iteration_count' = iteration_count]_vars

\* the second planner step selected no task and iteration_count is 2
C29_Witness ==
    /\ pc = "researcher"
    /\ node_runs.planner = 2
    /\ plan_next_task = None
    /\ iteration_count = 2

\* the tasks of a backlog with their status fields blanked
Identities(plan) ==
    [i \in 1..Len(plan) |-> [plan[i] EXCEPT !.status = "pending"]]

C31_FailedSearchRetried ==
    (/\ pc = "analyst" /\ last_search # None /\ tavily_client
     /\ last_search[1].issued >= 1
     /\ last_search[1].failed = last_search[1].issued) =>
        /\ last_search[1].client_calls > last_search[1].issued
        /\ last_search[1].client_calls <= StopAfterAttempt * last_search[1].issued

\* the place in the backlog of the task a finding was admitted for
PlaceOf(finding) == task_index(research_plan, finding.task_id)

\* get_next_task takes task a before task b: higher priority first, equal
\* priorities in backlog order
SelectedBefore(i, j) ==
    \/ research_plan[i].priority > research_plan[j].priority
    \/ /\ research_plan[i].priority = research_plan[j].priority
       /\ i < j

\* C32 as stated: a finding that precedes another in evidence belongs to the
\* same task or to a task that stands earlier in the backlog.
C32_EvidenceInBacklogOrder ==
    \A i, j \in 1..Len(findings) :
        i < j => PlaceOf(findings[i]) <= PlaceOf(findings[j])

\* C32, amended: evidence is in the order of admission (ascending finding
\* ids), and a finding that precedes another belongs to the same task or to a
\* task that get_next_task selects earlier: higher priority first, equal
\* priorities in backlog order.
C32_EvidenceInSelectionOrder ==
    \A i, j \in 1..Len(findings) :
        i < j =>
            /\ findings[i].finding_id < findings[j].finding_id
            /\ \/ findings[i].task_id = findings[j].task_id
               \/ SelectedBefore(PlaceOf(findings[i]), PlaceOf(findings[j]))

\* evidence holds findings of two tasks, those of the task later in the
\* backlog first
C32_Witness ==
    /\ pc = "route"
    /\ \E i, j \in 1..Len(findings) :
          /\ i < j
          /\ PlaceOf(findings[i]) > PlaceOf(findings[j])

\* C33: in every state of a run get_research_confidence is between 0 and 1,
\* and it is 0 when there are no findings; this includes the states where
\* covered_topics has more entries than the plan has tasks.
C33_ConfidenceInUnitRange ==
    LET confidence == get_research_confidence(State)
    IN  /\ confidence.num >= 0
        /\ confidence.num <= confidence.den
        /\ findings = <<>> => confidence.num = 0

\* C34: the collector runs its collection at most once for a task: the task a
\* collection is run for is not completed when the collection starts.
C34_CollectedOnce ==
    [][(pc = "researcher" /\ last_search' # None) =>
          TaskStatus(last_search'[1].task_id) # "completed"]_vars

\* C35: in every reachable state api_calls_count is the number of entries of
\* search_queries_used, search_queries_used holds no string twice, and it
\* holds exactly the queries search_web was called with, in the order of the
\* calls: a skipped query is neither recorded nor counted.
C35_CallsMatchUsedQueries ==
    /\ api_calls_count = Len(search_queries_used)
    /\ NoDuplicates(search_queries_used)
    /\ search_queries_used = search_log

\* two collections have run, queries were issued and at least one query was
\* skipped as already used
C35_Witness ==
    /\ pc = "analyst"
    /\ node_runs.researcher = 2
    /\ skipped_queries >= 1
    /\ api_calls_count >= 2

\* C36: after the researcher step of pass k the backlog has min(k, number of
\* tasks) completed tasks and no task in progress: each pass that had a
\* pending task completes exactly one, also when the collection raised.
C36_OneTaskPerPass ==
    pc = "analyst" =>
        /\ Cardinality(WithStatus(research_plan, "completed")) =
              Min(iteration_count, Len(research_plan))
        /\ WithStatus(research_plan, "in_progress") = {}

\* the second pass of a plan of three tasks: its collection raised, and two
\* tasks are completed
C36_Witness ==
    /\ pc = "analyst"
    /\ iteration_count = 2
    /\ Len(research_plan) = 3
    /\ last_search # None
    /\ last_search[1].raised
    /\ Cardinality(WithStatus(research_plan, "completed")) = 2

\* the edges of the workflow graph, the routing function taken as a step of
\* its own after the analyst
GraphEdges ==
    { <<"planner", "researcher">>, <<"researcher", "analyst">>,
      <<"analyst", "route">>, <<"route", "planner">>, <<"route", "finalizer">>,
      <<"finalizer", "done">> }

\* C37: the finalizer runs once, as the last step of the run: it has run
\* exactly when the run is over, and no step follows it; the report exists
\* exactly when status is completed; every step follows an edge of the graph,
\* so each pass is planner, researcher, analyst, routing in this order.
C37_FinalizeOnceAtEnd ==
    /\ [](node_runs.finalizer = IF pc = "done" THEN 1 ELSE 0)
    /\ []((final_report # None) <=> (status = "completed"))
    /\ [][pc # "done" /\ <<pc, pc'>> \in GraphEdges]_vars

\* a run of two passes is over and has its report
C37_Witness ==
    /\ pc = "done"
    /\ node_runs = [planner |-> 2, researcher |-> 2, analyst |-> 2, finalizer |-> 1]
    /\ final_report # None

\* every recommendation refers to the first min(2, |insights|) insights that
\* are in the state now
RecommendationsReferToInsights ==
    \A r \in 1..Len(recommendations) :
        recommendations[r].supporting_insights =
            first_ids(insights, SupportingInsights, "insight_id")

\* C38 as stated: in every reachable state each insight refers to the first
\* min(3, |findings|) findings of the evidence, and each recommendation to
\* the first min(2, |insights|) insights of the state.
C38_ReferencesCurrent ==
    /\ \A k \in 1..Len(insights) :
          insights[k].supporting_findings =
              first_ids(findings, SupportingFindings, "finding_id")
    /\ RecommendationsReferToInsights

\* C38, amended: each insight refers to the earliest findings of the
\* evidence, as many as there were at its analysis, three at most: to all of
\* the first min(3, |findings|) in every state but those between a
\* collection and the analysis that follows it, where the evidence may have
\* grown; each recommendation refers to the first min(2, |insights|) insights
\* of the state in every state.
C38_ReferencesAtAnalysis ==
    /\ \A k \in 1..Len(insights) :
          LET refs == insights[k].supporting_findings
          IN  /\ refs # <<>>
              /\ refs = first_ids(findings, Len(refs), "finding_id")
              /\ pc # "analyst" =>
                     refs = first_ids(findings, SupportingFindings, "finding_id")
    /\ RecommendationsReferToInsights

\* the second analysis has replaced the insights of the first, on evidence
\* of more than three findings, and has made recommendations
C38_Witness ==
    /\ pc = "route"
    /\ node_runs.analyst = 2
    /\ last_analysis # None
    /\ Len(findings) > SupportingFindings
    /\ Len(insights) >= SupportingInsights
    /\ recommendations # <<>>
====
